---------------------------- MODULE Spec2Model ----------------------------
(***************************************************************************)
(* TeachPy chat bot (src/app.py): the session persistence and lifecycle    *)
(* functions over the shared Redis store, and the command handlers of      *)
(* main() that call them.                                                  *)
(*                                                                         *)
(* Strings are sequences of character codes, so that slicing, formatting,  *)
(* parsing and lexicographic comparison are computed as Python computes    *)
(* them. Every store call (hget, hset, hdel, hgetall, get, set, delete) is *)
(* one atomic step of the client that issues it; the local computation     *)
(* that follows a store call belongs to the same step.                     *)
(***************************************************************************)
EXTENDS Integers, Sequences, FiniteSets, TLC

(***************************************************************************)
(* Bounds of the model.                                                    *)
(***************************************************************************)
MaxIds == 2
MaxMsgs == 5
MaxOps == 4
MaxCmds == 5
MaxRace == 3
MaxDay == 8

Ids == 1..MaxIds
Clients == {1, 2}

(***************************************************************************)
(* Character strings.                                                      *)
(***************************************************************************)
StrNewSessionOpen == <<78, 101, 119, 32, 83, 101, 115, 115, 105, 111, 110, 32, 40>>
StrClose == <<41>>
StrEllipsis == <<46, 46, 46>>
StrToday == <<84, 111, 100, 97, 121>>
StrYesterday == <<89, 101, 115, 116, 101, 114, 100, 97, 121>>
StrDatePrefix == <<50, 48, 50, 52, 45, 48, 49, 45>>
WeekdayNames ==
  << <<77, 111, 110, 100, 97, 121>>,
     <<84, 117, 101, 115, 100, 97, 121>>,
     <<87, 101, 100, 110, 101, 115, 100, 97, 121>>,
     <<84, 104, 117, 114, 115, 100, 97, 121>>,
     <<70, 114, 105, 100, 97, 121>>,
     <<83, 97, 116, 117, 114, 100, 97, 121>>,
     <<83, 117, 110, 100, 97, 121>> >>

\* The opening of the welcome text of line 123 ("Hello! I am TeachPy. To get
\* started,"); the rest of the text plays no part in any operation.
InitialGreeting ==
  <<72, 101, 108, 108, 111, 33, 32, 73, 32, 97, 109, 32, 84, 101, 97, 99, 104,
    80, 121, 46, 32, 84, 111, 32, 103, 101, 116, 32, 115, 116, 97, 114, 116,
    101, 100, 44>>

\* User prompts: "hi", and "Explain list comprehension in Python" (36 chars).
PromptShort == <<104, 105>>
PromptLong ==
  <<69, 120, 112, 108, 97, 105, 110, 32, 108, 105, 115, 116, 32, 99, 111, 109,
    112, 114, 101, 104, 101, 110, 115, 105, 111, 110, 32, 105, 110, 32, 80,
    121, 116, 104, 111, 110>>
Prompts == {PromptShort, PromptLong}
\* A model reply: "ok".
ReplyText == <<111, 107>>
Roles == {"user", "assistant"}

Min(a, b) == IF a < b THEN a ELSE b

\* s[:n] of Python.
Take(s, n) == SubSeq(s, 1, Min(n, Len(s)))

\* Python's comparison of two strings, by code point then by length.
RECURSIVE StrLess(_, _)
StrLess(a, b) ==
  IF b = <<>> THEN FALSE
  ELSE IF a = <<>> THEN TRUE
  ELSE IF Head(a) # Head(b) THEN Head(a) < Head(b)
  ELSE StrLess(Tail(a), Tail(b))

(***************************************************************************)
(* Time. The clock counts minutes since 2024-01-01 00:00, a Monday.        *)
(***************************************************************************)
MinutesPerDay == 24 * 60
StartClock == 10 * 60
ClockStep == 23 * 60

Digits2(n) == <<48 + (n \div 10), 48 + (n % 10)>>

\* datetime.strftime("%Y-%m-%d %H:%M"), for the days of January 2024.
Strftime(t) ==
  StrDatePrefix \o Digits2((t \div MinutesPerDay) + 1) \o <<32>>
    \o Digits2((t % MinutesPerDay) \div 60) \o <<58>>
    \o Digits2((t % MinutesPerDay) % 60)

Num2(s, i) == (s[i] - 48) * 10 + (s[i + 1] - 48)

\* datetime.strptime(s, "%Y-%m-%d %H:%M")
Strptime(s) ==
  (Num2(s, 9) - 1) * MinutesPerDay + Num2(s, 12) * 60 + Num2(s, 15)

DateOf(t) == t \div MinutesPerDay

\* A variant that goes by the time elapsed instead of the calendar dates.
format_chat_timestamp_elapsed(timestamp_str, nowt) ==
  LET elapsed == nowt - Strptime(timestamp_str)
  IN  IF elapsed >= 0 /\ elapsed < MinutesPerDay THEN StrToday
      ELSE IF elapsed >= 0 /\ elapsed < 2 * MinutesPerDay THEN StrYesterday
      ELSE WeekdayNames[(DateOf(Strptime(timestamp_str)) % 7) + 1]

\* lines 82-99; nowt is datetime.now()
format_chat_timestamp(timestamp_str, nowt) ==
  LET timestamp == Strptime(timestamp_str)
      today == DateOf(nowt)
      yesterday == today - 1
      timestamp_date == DateOf(timestamp)
  IN  IF timestamp_date = today THEN StrToday
      ELSE IF timestamp_date = yesterday THEN StrYesterday
      ELSE WeekdayNames[(timestamp_date % 7) + 1]

(***************************************************************************)
(* Session records and their JSON form.                                    *)
(***************************************************************************)
Absent == 0
Nil == <<>>
NoMsg == [role |-> "", content |-> <<>>]
NoSession ==
  [id |-> Absent, title |-> <<>>, messages |-> <<>>, created_at |-> <<>>,
   display_time |-> <<>>]

\* json.dumps of a session dict: the stored value is a flat text, modelled
\* as the tuple of its fields with every message flattened to a pair.
Dumps(session) ==
  << session.id, session.title,
     [i \in 1..Len(session.messages) |->
        <<session.messages[i].role, session.messages[i].content>>],
     session.created_at, session.display_time >>

\* json.loads of a stored value.
Loads(data) ==
  [id |-> data[1], title |-> data[2],
   messages |-> [i \in 1..Len(data[3]) |->
                   [role |-> data[3][i][1], content |-> data[3][i][2]]],
   created_at |-> data[4], display_time |-> data[5]]

\* redis_client is built with decode_responses=True: every reply is a str.
decode_responses == TRUE

\* x.decode('utf-8') on a reply of the store: a str has no decode method.
DecodeRaises == decode_responses


(***************************************************************************)
(* State.                                                                  *)
(*   sessions  the hash CHAT_SESSIONS_KEY: the stored value of every id,   *)
(*             Nil where the hash has no field                             *)
(*   current   the scalar CURRENT_SESSION_KEY, Absent when not set         *)
(*   clock     datetime.now()                                              *)
(*   nops      the number of operations started so far                     *)
(*   issued    the number of uuids generated so far                        *)
(*   titles    history: the titles each id's stored record has carried     *)
(*   rollbacks history: how often a rollback removed an id's second message*)
(*   deleted   history: the ids a finished delete_session call was given,  *)
(*             of those generated before the call                          *)
(*   pc, stack, loc   every client's position, pending returns and locals  *)
(*   st_cur    every client's st.session_state.current_session_id          *)
(*   handle    every client's st.session_state.chat_session                *)
(*   fmt       an argument and the result of format_chat_timestamp         *)
(*   op, prev  history: the operation a client runs or has just completed, *)
(*             and the one completed before it                             *)
(***************************************************************************)
VARIABLES sessions, current, clock, issued, titles, rollbacks, deleted,
          nops, pc, stack, loc, st_cur, handle, fmt, op, prev

vars == <<sessions, current, clock, issued, titles, rollbacks, deleted,
          nops, pc, stack, loc, st_cur, handle, fmt, op, prev>>

NoOp ==
  [name |-> "none", sid |-> Absent, msg |-> NoMsg, pre |-> NoSession,
   preStore |-> [i \in Ids |-> Nil],
   preCur |-> Absent, preIssued |-> 0, ret_id |-> Absent, ret_msgs |-> <<>>,
   ret_list |-> <<>>, send |-> "", err |-> "", done |-> TRUE]

NoLoc == [sid |-> Absent, msg |-> NoMsg, session |-> NoSession]

\* The record stored under an id, NoSession when there is none.
RecordOf(sid) == IF sessions[sid] = Nil THEN NoSession ELSE Loads(sessions[sid])

Exists(sid) == sessions[sid] # Nil

\* st.session_state.chat_session: whether the client has one (made), the
\* current_session_id its session state held when start_chat made it (born)
\* and the sessions whose turns send_message was given on it (turns).
NoHandle == [made |-> FALSE, born |-> Absent, turns |-> {}]

\* get_gemini_model().start_chat(history=[]), lines 199, 213, 230, 238
start_chat(sid) == [made |-> TRUE, born |-> sid, turns |-> {}]

\* No call of format_chat_timestamp yet: the instant t the argument ts was
\* formatted from, and the label returned (out).
NoFmt == [t |-> 0, ts |-> <<>>, out |-> <<>>]

NewOp(name, sid, msg) ==
  [name |-> name, sid |-> sid, msg |-> msg,
   pre |-> IF sid = Absent THEN NoSession ELSE RecordOf(sid),
   preStore |-> sessions,
   preCur |-> current, preIssued |-> issued, ret_id |-> Absent,
   ret_msgs |-> <<>>,
   ret_list |-> <<>>, send |-> "", err |-> "", done |-> FALSE]

Init ==
  /\ sessions = [i \in Ids |-> Nil]
  /\ current = Absent
  /\ clock = StartClock
  /\ issued = 0
  /\ nops = 0
  /\ titles = [i \in Ids |-> {}]
  /\ rollbacks = [i \in Ids |-> 0]
  /\ deleted = {}
  /\ handle = [c \in Clients |-> NoHandle]
  /\ fmt = NoFmt
  /\ pc = [c \in Clients |-> "idle"]
  /\ stack = [c \in Clients |-> <<>>]
  /\ loc = [c \in Clients |-> NoLoc]
  /\ st_cur = [c \in Clients |-> Absent]
  /\ op = [c \in Clients |-> NoOp]
  /\ prev = [c \in Clients |-> NoOp]

(***************************************************************************)
(* Calls, returns and exceptions.                                          *)
(***************************************************************************)
\* A client starts an operation: the operation it completed last becomes
\* the previous one.
Begin(c, o, label, frame, ret) ==
  /\ pc[c] = "idle"
  /\ nops' = nops + 1
  /\ pc' = [pc EXCEPT ![c] = label]
  /\ stack' = [stack EXCEPT ![c] = ret]
  /\ loc' = [loc EXCEPT ![c] = frame]
  /\ prev' = [prev EXCEPT ![c] = op[c]]
  /\ op' = [op EXCEPT ![c] = o]

\* Where a returning function leaves its client. The code that runs between
\* a return and the caller's next store or endpoint call is local, and runs
\* in the step of the return:
\*   "new"     line 127: create_new_session returns its session_id
\*   "top"     line 203: main() keeps the id get_current_session returned
\*   "newchat" lines 212-214, 229-231: the handler keeps the new id and
\*             starts a new chat_session
\*   "selbtn"  line 238: the select handler starts a new chat_session
\*   "delbtn"  lines 227-228: the delete handler replaces the session it
\*             deleted when that was its current one
\*   "sub"     line 267: the submit handler goes on to the endpoint
\* r carries the value being returned (rv), the client's
\* st.session_state.current_session_id (st) and whether a new chat_session
\* was started (nh).
RECURSIVE Unwind(_, _, _)
Unwind(c, stk, r) ==
  IF stk = <<>>
  THEN [pc |-> "idle", stack |-> <<>>, rv |-> r.rv, st |-> r.st, nh |-> r.nh,
        done |-> TRUE]
  ELSE IF Head(stk) = "new"
  THEN Unwind(c, Tail(stk), [r EXCEPT !.rv = loc[c].sid])
  ELSE IF Head(stk) = "top"
  THEN Unwind(c, Tail(stk), [r EXCEPT !.st = r.rv])
  ELSE IF Head(stk) = "newchat"
  THEN Unwind(c, Tail(stk), [r EXCEPT !.st = r.rv, !.nh = TRUE])
  ELSE IF Head(stk) = "selbtn"
  THEN Unwind(c, Tail(stk), [r EXCEPT !.nh = TRUE])
  ELSE IF Head(stk) = "delbtn"
  THEN IF op[c].sid = r.st
       THEN [pc |-> "new_hset", stack |-> <<"newchat">> \o Tail(stk),
             rv |-> r.rv, st |-> r.st, nh |-> r.nh, done |-> FALSE]
       ELSE Unwind(c, Tail(stk), r)
  ELSE [pc |-> "sub_send", stack |-> Tail(stk), rv |-> r.rv, st |-> r.st,
        nh |-> r.nh, done |-> FALSE]

\* lines 213, 230, 238: the handlers that change current_session_id start a
\* new chat_session; nothing else replaces the one of line 199.
NextHandle_kept(h, u) == h
NextHandle(h, u) == IF u.nh THEN start_chat(u.st) ELSE h

\* The running function returns rv: to its caller, or the operation is over.
Return(c, o, rv) ==
  LET u == Unwind(c, stack[c], [rv |-> rv, st |-> st_cur[c], nh |-> FALSE])
  IN  /\ pc' = [pc EXCEPT ![c] = u.pc]
      /\ stack' = [stack EXCEPT ![c] = u.stack]
      /\ st_cur' = [st_cur EXCEPT ![c] = u.st]
      /\ handle' = [handle EXCEPT ![c] = NextHandle(@, u)]
      /\ op' = [op EXCEPT ![c] =
                  IF u.done THEN [o EXCEPT !.ret_id = u.rv, !.done = TRUE]
                  ELSE o]

\* An exception no caller catches: the operation is over.
Raise(c, e) ==
  /\ pc' = [pc EXCEPT ![c] = "idle"]
  /\ stack' = [stack EXCEPT ![c] = <<>>]
  /\ op' = [op EXCEPT ![c] = [@ EXCEPT !.err = e, !.done = TRUE]]
  /\ UNCHANGED <<st_cur, handle>>

\* A step inside a function.
Goto(c, label) ==
  /\ pc' = [pc EXCEPT ![c] = label]
  /\ UNCHANGED <<stack, op, st_cur, handle>>

\* redis_client.hset(CHAT_SESSIONS_KEY, sid, json.dumps(session))
\* rolled tells the write of the rollback (line 285) from the others.
Hset(sid, session, rolled) ==
  /\ sessions' = [sessions EXCEPT ![sid] = Dumps(session)]
  /\ titles' = [titles EXCEPT ![sid] = @ \cup {session.title}]
  /\ rollbacks' = [rollbacks EXCEPT ![sid] =
                     IF rolled /\ Len(session.messages) = 1
                     THEN @ + 1 ELSE @]
  /\ UNCHANGED deleted

(***************************************************************************)
(* create_new_session                                                      *)
(***************************************************************************)
\* lines 103-117: build the record and store it
new_hset(c) ==
  /\ pc[c] = "new_hset"
  /\ issued < MaxIds
  /\ LET session_id == issued + 1
         timestamp == Strftime(clock)
         display_time == format_chat_timestamp(timestamp, clock)
         session_data ==
           [id |-> session_id,
            title |-> StrNewSessionOpen \o display_time \o StrClose,
            messages |-> <<>>,
            created_at |-> timestamp,
            display_time |-> display_time]
     IN  /\ Hset(session_id, session_data, FALSE)
         /\ issued' = issued + 1
         /\ loc' = [loc EXCEPT ![c].sid = session_id]
  /\ Goto(c, "new_set")
  /\ UNCHANGED <<current, clock, fmt, nops, prev>>

\* lines 121-124
initial_message_user == [role |-> "user", content |-> InitialGreeting]
initial_message == [role |-> "assistant", content |-> InitialGreeting]

\* lines 118-125: set the pointer, then call add_message_to_session
new_set(c) ==
  /\ pc[c] = "new_set"
  /\ current' = loc[c].sid
  /\ loc' = [loc EXCEPT ![c].msg = initial_message]
  /\ pc' = [pc EXCEPT ![c] = "add_hget"]
  /\ stack' = [stack EXCEPT ![c] = <<"new">> \o @]
  /\ UNCHANGED <<sessions, titles, rollbacks, deleted, issued, nops, clock,
                 fmt, st_cur, handle, op, prev>>

(***************************************************************************)
(* add_message_to_session                                                  *)
(***************************************************************************)
\* line 151: f"{message['content'][:30]}..."
NewTitle_untruncated(content) == content \o StrEllipsis
NewTitle(content) == Take(content, 30) \o StrEllipsis

\* line 150
IsFirstUserMessage_any(message, messages) == message.role = "user"
IsFirstUserMessage(message, messages) ==
  message.role = "user" /\ Len(messages) = 2

\* line 148: session["messages"].append(message)
ListAppend_front(messages, message) == <<message>> \o messages
ListAppend(messages, message) == Append(messages, message)

\* The record after lines 148-151.
AppendTo(session, message) ==
  LET appended == [session EXCEPT !.messages = ListAppend(@, message)]
  IN  IF IsFirstUserMessage(message, appended.messages)
      THEN [appended EXCEPT !.title = NewTitle(message.content)]
      ELSE appended

\* lines 145-147: the record the hget finds, NoSession when it finds none
LoadedSession_default(sid) ==
  IF Exists(sid) THEN Loads(sessions[sid]) ELSE [NoSession EXCEPT !.id = sid]
LoadedSession(sid) ==
  IF Exists(sid) THEN Loads(sessions[sid]) ELSE NoSession

\* lines 145-151
add_hget(c) ==
  /\ pc[c] = "add_hget"
  /\ IF LoadedSession(loc[c].sid) # NoSession
     THEN /\ loc' = [loc EXCEPT ![c].session =
                       AppendTo(LoadedSession(loc[c].sid), loc[c].msg)]
          /\ Goto(c, "add_hset")
     ELSE /\ Return(c, op[c], Absent)
          /\ UNCHANGED loc
  /\ UNCHANGED <<sessions, titles, rollbacks, deleted, issued, nops, current,
                 clock, fmt, prev>>

\* line 152 writes the dict that line 145 loaded and lines 148-151 changed,
\* whatever the store holds by then.
SessionToWrite_reloaded(c) ==
  IF Exists(loc[c].sid)
  THEN AppendTo(Loads(sessions[loc[c].sid]), loc[c].msg)
  ELSE loc[c].session
SessionToWrite(c) == loc[c].session

\* line 152
add_hset(c) ==
  /\ pc[c] = "add_hset"
  /\ Hset(loc[c].sid, SessionToWrite(c), FALSE)
  /\ Return(c, op[c], Absent)
  /\ UNCHANGED <<issued, nops, current, clock, fmt, loc, prev>>

(***************************************************************************)
(* get_current_session                                                     *)
(***************************************************************************)
\* lines 131-134
cur_get(c) ==
  /\ pc[c] = "cur_get"
  /\ IF current = Absent
     THEN Goto(c, "new_hset")
     ELSE IF DecodeRaises
     THEN Raise(c, "AttributeError")
     ELSE Return(c, op[c], current)
  /\ UNCHANGED <<sessions, titles, rollbacks, deleted, issued, nops, current,
                 clock, fmt, loc, prev>>

(***************************************************************************)
(* get_session_messages                                                    *)
(***************************************************************************)
\* lines 138-141
msgs_hget(c) ==
  /\ pc[c] = "msgs_hget"
  /\ Return(c, [op[c] EXCEPT !.ret_msgs =
                  IF Exists(loc[c].sid)
                  THEN Loads(sessions[loc[c].sid]).messages ELSE <<>>],
            Absent)
  /\ UNCHANGED <<sessions, titles, rollbacks, deleted, issued, nops, current,
                 clock, fmt, loc, prev>>

(***************************************************************************)
(* get_all_sessions                                                        *)
(***************************************************************************)
\* sorted(..., key=created_at, reverse=True): a stable sort, so x goes after
\* every entry whose key is not smaller than its own.
RECURSIVE InsertDesc(_, _)
InsertDesc(x, list) ==
  IF list = <<>> THEN <<x>>
  ELSE IF StrLess(Head(list).created_at, x.created_at)
       THEN <<x>> \o list
       ELSE <<Head(list)>> \o InsertDesc(x, Tail(list))

RECURSIVE SortedDesc(_)
SortedDesc(list) ==
  IF list = <<>> THEN <<>>
  ELSE InsertDesc(list[Len(list)], SortedDesc(SubSeq(list, 1, Len(list) - 1)))

\* lines 159-164: the summary of one item of hgetall
Summary(session_id, session_data) ==
  LET session == Loads(session_data)
  IN  [id |-> session_id, title |-> session.title,
       created_at |-> session.created_at,
       message_count |-> Len(session.messages)]

\* The items of hgetall among the ids 1..n, in the order the fields were
\* first set.
RECURSIVE Items(_)
Items(n) ==
  IF n = 0 THEN <<>>
  ELSE IF Exists(n) THEN Append(Items(n - 1), Summary(n, sessions[n]))
  ELSE Items(n - 1)

\* lines 156-166: the first item raises at line 160 when the ids are str
all_hgetall(c) ==
  /\ pc[c] = "all_hgetall"
  /\ IF Items(MaxIds) = <<>>
     THEN Return(c, [op[c] EXCEPT !.ret_list = <<>>], Absent)
     ELSE IF DecodeRaises
     THEN Raise(c, "AttributeError")
     ELSE Return(c, [op[c] EXCEPT !.ret_list = SortedDesc(Items(MaxIds))],
                 Absent)
  /\ UNCHANGED <<sessions, titles, rollbacks, deleted, issued, nops, current,
                 clock, fmt, loc, prev>>

(***************************************************************************)
(* delete_session                                                          *)
(***************************************************************************)
\* line 170
del_hdel(c) ==
  /\ pc[c] = "del_hdel"
  /\ sessions' = [sessions EXCEPT ![loc[c].sid] = Nil]
  /\ Goto(c, "del_get")
  /\ UNCHANGED <<titles, rollbacks, deleted, issued, nops, current, clock,
                 fmt, loc, prev>>

\* lines 171-173: read the pointer, then delete it when it names the session
del_get(c) ==
  /\ pc[c] \in {"del_get", "del_delete"}
  /\ deleted' = IF \/ pc[c] = "del_get" /\ current = loc[c].sid
                                       /\ ~DecodeRaises
                   \/ loc[c].sid > op[c].preIssued
                THEN deleted ELSE deleted \cup {loc[c].sid}
  /\ IF pc[c] = "del_delete"
     THEN /\ current' = Absent
          /\ Return(c, op[c], Absent)
     ELSE /\ IF current = Absent
             THEN Return(c, op[c], Absent)
             ELSE IF DecodeRaises
             THEN Raise(c, "AttributeError")
             ELSE IF current = loc[c].sid
             THEN Goto(c, "del_delete")
             ELSE Return(c, op[c], Absent)
          /\ UNCHANGED current
  /\ UNCHANGED <<sessions, titles, rollbacks, issued, nops, clock, fmt, loc,
                 prev>>

(***************************************************************************)
(* The rollback of main(), lines 280-285 (handleFailedSend)                *)
(***************************************************************************)
\* line 284: session["messages"].pop()
ListPop_first(messages) == Tail(messages)
ListPop_none(messages) == messages
ListPop(messages) == SubSeq(messages, 1, Len(messages) - 1)

\* lines 283-284: the record the rollback writes back; only the messages
\* of the loaded record change.
RolledBack_retitled(session) ==
  [session EXCEPT !.messages = ListPop(@),
                  !.title = StrNewSessionOpen \o session.display_time
                              \o StrClose]
RolledBack(session) == [session EXCEPT !.messages = ListPop(@)]

\* lines 280-284
rb_hget(c) ==
  /\ pc[c] = "rb_hget"
  /\ LET session == RecordOf(loc[c].sid)
     IN  IF /\ Exists(loc[c].sid)
            /\ session.messages # <<>>
            /\ session.messages[Len(session.messages)].role = "user"
         THEN /\ loc' = [loc EXCEPT ![c].session = RolledBack(session)]
              /\ Goto(c, "rb_hset")
         ELSE /\ Return(c, op[c], Absent)
              /\ UNCHANGED loc
  /\ UNCHANGED <<sessions, titles, rollbacks, deleted, issued, nops, current,
                 clock, fmt, prev>>

\* line 285
rb_hset(c) ==
  /\ pc[c] = "rb_hset"
  /\ Hset(loc[c].sid, loc[c].session, TRUE)
  /\ Return(c, op[c], Absent)
  /\ UNCHANGED <<issued, nops, current, clock, fmt, loc, prev>>

(***************************************************************************)
(* The command handlers of main()                                          *)
(***************************************************************************)
\* lines 237-238
sel_set(c) ==
  /\ pc[c] = "sel_set"
  /\ current' = loc[c].sid
  /\ Return(c, op[c], Absent)
  /\ UNCHANGED <<sessions, titles, rollbacks, deleted, issued, nops, clock,
                 fmt, loc, prev>>

\* lines 267-272: the endpoint replies, and the reply is appended
send_ok(c) ==
  /\ pc[c] = "sub_send"
  /\ loc' = [loc EXCEPT ![c].msg = [role |-> "assistant", content |-> ReplyText]]
  /\ pc' = [pc EXCEPT ![c] = "add_hget"]
  /\ op' = [op EXCEPT ![c].send = "ok"]
  /\ handle' = [handle EXCEPT ![c].turns = @ \cup {loc[c].sid}]
  /\ UNCHANGED <<sessions, titles, rollbacks, deleted, issued, nops, current,
                 clock, fmt, stack, st_cur, prev>>

\* lines 267, 277-278: the endpoint fails, and the handler rolls back
send_fail(c) ==
  /\ pc[c] = "sub_send"
  /\ pc' = [pc EXCEPT ![c] = "rb_hget"]
  /\ op' = [op EXCEPT ![c].send = "failed"]
  /\ handle' = [handle EXCEPT ![c].turns = @ \cup {loc[c].sid}]
  /\ UNCHANGED <<sessions, titles, rollbacks, deleted, issued, nops, current,
                 clock, fmt, stack, loc, st_cur, prev>>

(***************************************************************************)
(* The operations a caller starts. A function of the lifecycle manager is  *)
(* called with any id, a command handler of main() with the                *)
(* current_session_id the script last put in st.session_state and, for the *)
(* buttons of the session list, the id of a session the list shows.        *)
(*                                                                         *)
(* In the script the handlers of lines 225-285 come after line 219, where  *)
(* get_all_sessions raises for every non-empty store (all_hgetall), and    *)
(* line 202 raises whenever the pointer is set (cur_get). The handlers are *)
(* entered here on their own, as the commands the presentation layer       *)
(* issues, so that what their code does to the store is observable.        *)
(***************************************************************************)
Messages == [role : Roles, content : Prompts]

HasRoom(sid, n) == Len(RecordOf(sid).messages) + n <= MaxMsgs

Frame(sid, m) == [NoLoc EXCEPT !.sid = sid, !.msg = m]

CallCreateSession(c) ==
  /\ nops < MaxOps
  /\ issued < MaxIds
  /\ Begin(c, NewOp("createSession", Absent, NoMsg), "new_hset", NoLoc, <<>>)
  /\ UNCHANGED <<sessions, titles, rollbacks, deleted, issued, current,
                 clock, fmt, st_cur, handle>>

CallGetCurrentSession(c) ==
  /\ nops < MaxOps
  /\ current # Absent \/ issued < MaxIds
  /\ Begin(c, NewOp("getCurrentSession", Absent, NoMsg), "cur_get", NoLoc, <<>>)
  /\ UNCHANGED <<sessions, titles, rollbacks, deleted, issued, current,
                 clock, fmt, st_cur, handle>>

CallGetMessages(c, sid) ==
  /\ nops < MaxOps
  /\ Begin(c, NewOp("getMessages", sid, NoMsg), "msgs_hget",
           Frame(sid, NoMsg), <<>>)
  /\ UNCHANGED <<sessions, titles, rollbacks, deleted, issued, current,
                 clock, fmt, st_cur, handle>>

CallAppendMessage(c, sid, m) ==
  /\ nops < MaxOps
  /\ HasRoom(sid, 1)
  /\ Begin(c, NewOp("appendMessage", sid, m), "add_hget", Frame(sid, m), <<>>)
  /\ UNCHANGED <<sessions, titles, rollbacks, deleted, issued, current,
                 clock, fmt, st_cur, handle>>

CallListSessions(c) ==
  /\ nops < MaxOps
  /\ Begin(c, NewOp("listSessions", Absent, NoMsg), "all_hgetall", NoLoc, <<>>)
  /\ UNCHANGED <<sessions, titles, rollbacks, deleted, issued, current,
                 clock, fmt, st_cur, handle>>

CallDeleteSession(c, sid) ==
  /\ nops < MaxOps
  /\ Begin(c, NewOp("deleteSession", sid, NoMsg), "del_hdel",
           Frame(sid, NoMsg), <<>>)
  /\ UNCHANGED <<sessions, titles, rollbacks, deleted, issued, current,
                 clock, fmt, st_cur, handle>>

CallHandleFailedSend(c, sid) ==
  /\ nops < MaxOps
  /\ Begin(c, NewOp("handleFailedSend", sid, NoMsg), "rb_hget",
           Frame(sid, NoMsg), <<>>)
  /\ UNCHANGED <<sessions, titles, rollbacks, deleted, issued, current,
                 clock, fmt, st_cur, handle>>

\* lines 198-203
MainTop(c) ==
  /\ nops < MaxCmds
  /\ current # Absent \/ issued < MaxIds
  /\ Begin(c, NewOp("main", Absent, NoMsg), "cur_get", NoLoc, <<"top">>)
  /\ handle' = [handle EXCEPT ![c] =
                  IF @.made THEN @ ELSE start_chat(st_cur[c])]
  /\ UNCHANGED <<sessions, titles, rollbacks, deleted, issued, current, clock,
                 fmt, st_cur>>

\* lines 210-211
CmdNewSession(c) ==
  /\ nops < MaxCmds
  /\ st_cur[c] # Absent
  /\ issued < MaxIds
  /\ Begin(c, NewOp("new-session", Absent, NoMsg), "new_hset", NoLoc,
           <<"newchat">>)
  /\ UNCHANGED <<sessions, titles, rollbacks, deleted, issued, current,
                 clock, fmt, st_cur, handle>>

\* lines 225-226
CmdDeleteSession(c, sid) ==
  /\ nops < MaxCmds
  /\ st_cur[c] # Absent
  /\ Exists(sid)
  /\ Begin(c, NewOp("delete-session", sid, NoMsg), "del_hdel",
           Frame(sid, NoMsg), <<"delbtn">>)
  /\ UNCHANGED <<sessions, titles, rollbacks, deleted, issued, current,
                 clock, fmt, st_cur, handle>>

\* lines 233-236
CmdSelectSession(c, sid) ==
  /\ nops < MaxCmds
  /\ st_cur[c] # Absent
  /\ Exists(sid)
  /\ sid # st_cur[c]
  /\ Begin(c, NewOp("select-session", sid, NoMsg), "sel_set",
           Frame(sid, NoMsg), <<"selbtn">>)
  /\ st_cur' = [st_cur EXCEPT ![c] = sid]
  /\ UNCHANGED <<sessions, titles, rollbacks, deleted, issued, current, clock,
                 fmt, handle>>

\* lines 256-259
CmdSubmitMessage(c, text) ==
  /\ nops < MaxCmds
  /\ st_cur[c] # Absent
  /\ HasRoom(st_cur[c], 2)
  /\ LET user_message == [role |-> "user", content |-> text]
     IN  Begin(c, NewOp("submit-message", st_cur[c], user_message),
               "add_hget", Frame(st_cur[c], user_message), <<"sub">>)
  /\ UNCHANGED <<sessions, titles, rollbacks, deleted, issued, current,
                 clock, fmt, st_cur, handle>>

\* The functions of the lifecycle manager, called one at a time.
StartCall(c) ==
  \/ CallCreateSession(c)
  \/ CallGetCurrentSession(c)
  \/ \E sid \in Ids : CallGetMessages(c, sid)
  \/ \E sid \in Ids, m \in Messages : CallAppendMessage(c, sid, m)
  \/ CallListSessions(c)
  \/ \E sid \in Ids : CallDeleteSession(c, sid)
  \/ \E sid \in Ids : CallHandleFailedSend(c, sid)

\* The commands of the presentation layer.
StartCmd(c) ==
  \/ MainTop(c)
  \/ CmdNewSession(c)
  \/ \E sid \in Ids : CmdDeleteSession(c, sid)
  \/ \E sid \in Ids : CmdSelectSession(c, sid)
  \/ \E text \in Prompts : CmdSubmitMessage(c, text)

StepCall(c) ==
  \/ new_hset(c) \/ new_set(c)
  \/ add_hget(c) \/ add_hset(c)
  \/ cur_get(c)
  \/ msgs_hget(c)
  \/ all_hgetall(c)
  \/ del_hdel(c) \/ del_get(c)
  \/ rb_hget(c) \/ rb_hset(c)

StepCmd(c) ==
  \/ new_hset(c) \/ new_set(c)
  \/ add_hget(c) \/ add_hset(c)
  \/ cur_get(c)
  \/ del_hdel(c) \/ del_get(c)
  \/ rb_hget(c) \/ rb_hset(c)
  \/ sel_set(c)
  \/ send_ok(c) \/ send_fail(c)

\* One caller of the lifecycle manager's functions.
Next == StartCall(1) \/ StepCall(1)

Spec == Init /\ [][Next]_vars

\* One client of the presentation layer, whose commands run one at a time.
NextCmd == StartCmd(1) \/ StepCmd(1)

SpecCmd == Init /\ [][NextCmd]_vars

(***************************************************************************)
(* Two clients. Each store call is one step, and the steps of the two      *)
(* clients interleave in every order. Each client submits a text of its    *)
(* own, which tells the messages of the two apart.                         *)
(***************************************************************************)
PromptOf(c) == IF c = 1 THEN PromptShort ELSE PromptLong

ConcurrentCreateSession(c) ==
  /\ nops < MaxRace
  /\ CallCreateSession(c)

ConcurrentAppendMessage(c, sid, role) ==
  /\ nops < MaxRace
  /\ CallAppendMessage(c, sid, [role |-> role, content |-> PromptOf(c)])

ConcurrentDeleteSession(c, sid) ==
  /\ nops < MaxRace
  /\ CallDeleteSession(c, sid)

ConcurrentHandleFailedSend(c, sid) ==
  /\ nops < MaxRace
  /\ CallHandleFailedSend(c, sid)

StartConcurrent(c) ==
  \/ ConcurrentCreateSession(c)
  \/ \E sid \in Ids, role \in Roles : ConcurrentAppendMessage(c, sid, role)
  \/ \E sid \in Ids : ConcurrentDeleteSession(c, sid)
  \/ \E sid \in Ids : ConcurrentHandleFailedSend(c, sid)

StepConcurrent(c) ==
  \/ new_hset(c) \/ new_set(c)
  \/ add_hget(c) \/ add_hset(c)
  \/ del_hdel(c) \/ del_get(c)
  \/ rb_hget(c) \/ rb_hset(c)

\* Two callers of the functions that write session records.
NextMulti == \E c \in Clients : StartConcurrent(c) \/ StepConcurrent(c)

SpecMulti == Init /\ [][NextMulti]_vars

StartCmdOf(c) ==
  \/ MainTop(c)
  \/ CmdNewSession(c)
  \/ \E sid \in Ids : CmdDeleteSession(c, sid)
  \/ \E sid \in Ids : CmdSelectSession(c, sid)
  \/ CmdSubmitMessage(c, PromptOf(c))

\* Two clients of the presentation layer.
NextCmdMulti == \E c \in Clients : StartCmdOf(c) \/ StepCmd(c)

SpecCmdMulti == Init /\ [][NextCmdMulti]_vars

(***************************************************************************)
(* format_chat_timestamp on its own: the timestamp was formatted at any    *)
(* instant of the days 0..MaxDay, and datetime.now() is any such instant.  *)
(***************************************************************************)
TimesOfDay == {0, StartClock, MinutesPerDay - 1}

Instants == {d * MinutesPerDay + m : d \in 0..MaxDay, m \in TimesOfDay}

InitFormat ==
  /\ clock \in Instants
  /\ fmt \in {[t |-> t, ts |-> Strftime(t), out |-> <<>>] : t \in Instants}
  /\ sessions = [i \in Ids |-> Nil]
  /\ current = Absent
  /\ issued = 0
  /\ nops = 0
  /\ titles = [i \in Ids |-> {}]
  /\ rollbacks = [i \in Ids |-> 0]
  /\ deleted = {}
  /\ handle = [c \in Clients |-> NoHandle]
  /\ pc = [c \in Clients |-> "idle"]
  /\ stack = [c \in Clients |-> <<>>]
  /\ loc = [c \in Clients |-> NoLoc]
  /\ st_cur = [c \in Clients |-> Absent]
  /\ op = [c \in Clients |-> NoOp]
  /\ prev = [c \in Clients |-> NoOp]

\* lines 82-99
Format ==
  /\ fmt.out = <<>>
  /\ fmt' = [fmt EXCEPT !.out = format_chat_timestamp(fmt.ts, clock)]
  /\ UNCHANGED <<sessions, current, clock, issued, titles, rollbacks, deleted,
                 nops, pc, stack, loc, st_cur, handle, op, prev>>

NextFormat == Format

SpecFormat == InitFormat /\ [][NextFormat]_vars

(***************************************************************************)
(* Properties.                                                             *)
(* Completed(c, name): client c has completed the operation name and       *)
(* started none since. Followed(c, first, second): it completed first,     *)
(* then second, with nothing in between.                                   *)
(***************************************************************************)
Completed(c, name) == op[c].name = name /\ op[c].done

Followed(c, first, second) == prev[c].name = first /\ Completed(c, second)

StoredIds == {i \in Ids : Exists(i)}

\* C1: when createSession has returned, with no other client touching the
\* store, the store holds a record under the returned id whose messages are
\* exactly the one assistant greeting, and the pointer equals the returned id.
C1_CreateSessionSeedsGreeting ==
  \A c \in Clients :
    Completed(c, "createSession") =>
      /\ op[c].err = ""
      /\ op[c].ret_id \in Ids
      /\ Exists(op[c].ret_id)
      /\ RecordOf(op[c].ret_id).id = op[c].ret_id
      /\ RecordOf(op[c].ret_id).messages =
           <<[role |-> "assistant", content |-> InitialGreeting]>>
      /\ current = op[c].ret_id

\* A second session has been created while the first is still stored.
C1_Witness ==
  \E c \in Clients :
    /\ Completed(c, "createSession")
    /\ op[c].ret_id \in Ids
    /\ StoredIds \ {op[c].ret_id} # {}

\* C2 as claimed: over a session's lifetime the stored title takes at most
\* two distinct values, the creation title and one replacement.
C2_TitleAtMostTwoValues ==
  \A id \in Ids : Cardinality(titles[id]) <= 2

\* C2 as amended: the stored title takes at most two distinct values plus
\* one for every rollback that removed the session's second message.
C2_TitleValuesBoundedByRollbacks ==
  \A id \in Ids : Cardinality(titles[id]) <= 2 + rollbacks[id]

\* A first user message was rolled back and another one retitled the session.
C2_Witness ==
  \E id \in Ids :
    /\ rollbacks[id] = 1
    /\ Cardinality(titles[id]) = 3
    /\ Len(RecordOf(id).messages) = 2

\* C3: when submit-message appended a user message to an existing session
\* and the send failed, the rollback leaves the whole record equal to the
\* record as it was before the submission.
C3_RollbackRestoresRecord ==
  \A c \in Clients :
    ( /\ Completed(c, "submit-message")
      /\ op[c].send = "failed"
      /\ op[c].pre.id # Absent )
    => RecordOf(op[c].sid) = op[c].pre

\* C4: whenever no command is mid-execution, the pointer, if present, names
\* a session whose record is in the store.
C4_PointerNamesStoredSession ==
  (\A c \in Clients : pc[c] = "idle") =>
    (current # Absent => Exists(current))

\* C5: deleteSession(id) called while the pointer equals id completes with
\* the record removed and the pointer cleared, and the getCurrentSession
\* that follows creates a session and returns an id other than id.
C5_DeleteCurrentThenFreshSession ==
  \A c \in Clients :
    ( /\ Followed(c, "deleteSession", "getCurrentSession")
      /\ prev[c].preCur = prev[c].sid )
    => /\ prev[c].err = ""
       /\ ~Exists(prev[c].sid)
       /\ op[c].preCur = Absent
       /\ op[c].err = ""
       /\ op[c].ret_id \in Ids \ {prev[c].sid}
       /\ Exists(op[c].ret_id)
       /\ issued = op[c].preIssued + 1

\* C6: two getCurrentSession calls in a row return the same id, neither
\* fails, and the second creates no session.
C6_GetCurrentSessionIdempotent ==
  \A c \in Clients :
    Followed(c, "getCurrentSession", "getCurrentSession") =>
      /\ prev[c].err = ""
      /\ op[c].err = ""
      /\ op[c].ret_id \in Ids
      /\ op[c].ret_id = prev[c].ret_id
      /\ issued = op[c].preIssued

\* The case of C7: handleFailedSend(id) right after appendMessage(id, m),
\* m a user message, id an existing session.
C7_Case(c) ==
  /\ Followed(c, "appendMessage", "handleFailedSend")
  /\ prev[c].sid = op[c].sid
  /\ prev[c].msg.role = "user"
  /\ prev[c].pre.id # Absent

\* C7: handleFailedSend right after appendMessage of a user message removes
\* exactly that message: the count decreases by one and the messages left
\* are, in order, those present before the append.
C7_RollbackRemovesExactlyTheAppended ==
  \A c \in Clients :
    C7_Case(c) =>
      /\ op[c].err = ""
      /\ Len(RecordOf(op[c].sid).messages) = Len(op[c].pre.messages) - 1
      /\ RecordOf(op[c].sid).messages = prev[c].pre.messages

\* The rollback ran on a session that held more than the greeting.
C7_Witness ==
  \E c \in Clients : C7_Case(c) /\ Len(prev[c].pre.messages) >= 2

\* The case of C8: getMessages(id) right after appendMessage(id, m) on an
\* existing session.
C8_Case(c) ==
  /\ Followed(c, "appendMessage", "getMessages")
  /\ prev[c].sid = op[c].sid
  /\ prev[c].pre.id # Absent

\* C8: appendMessage(id, m) followed by getMessages(id) returns the previous
\* messages, unchanged and in order, with m as the last element.
C8_AppendThenGetMessages ==
  \A c \in Clients :
    C8_Case(c) =>
      /\ op[c].err = ""
      /\ Len(op[c].ret_msgs) = Len(prev[c].pre.messages) + 1
      /\ \A i \in 1..Len(prev[c].pre.messages) :
           op[c].ret_msgs[i] = prev[c].pre.messages[i]
      /\ op[c].ret_msgs[Len(op[c].ret_msgs)] = prev[c].msg

\* The append was made to a session that held two messages already.
C8_Witness ==
  \E c \in Clients : C8_Case(c) /\ Len(prev[c].pre.messages) >= 2

\* The first 30 characters of a text, followed by "...".
First30Dots(content) ==
  [i \in 1..(Min(30, Len(content)) + 3) |->
     IF i <= Min(30, Len(content)) THEN content[i] ELSE 46]

\* C9: appendMessage to an existing session sets the title to the first 30
\* characters of the content followed by "..." exactly when the message has
\* role user and the resulting count is 2; every other append leaves the
\* title as it was.
C9_RetitleExactlyOnFirstUserMessage ==
  \A c \in Clients :
    (Completed(c, "appendMessage") /\ op[c].pre.id # Absent) =>
      LET after == RecordOf(op[c].sid)
      IN  IF op[c].msg.role = "user" /\ Len(after.messages) = 2
          THEN after.title = First30Dots(op[c].msg.content)
          ELSE after.title = op[c].pre.title

\* A user message longer than 30 characters became the second message.
C9_Witness ==
  \E c \in Clients :
    /\ Completed(c, "appendMessage")
    /\ op[c].pre.id # Absent
    /\ op[c].msg.role = "user"
    /\ Len(op[c].msg.content) > 30
    /\ Len(RecordOf(op[c].sid).messages) = 2
    /\ Len(RecordOf(op[c].sid).title) = 33

\* C10: listSessions returns one summary entry per stored record, in
\* non-increasing order of created_at.
C10_ListSessionsSortedDescending ==
  \A c \in Clients :
    Completed(c, "listSessions") =>
      /\ op[c].err = ""
      /\ Len(op[c].ret_list) = Cardinality(StoredIds)
      /\ \A id \in StoredIds :
           \E i \in 1..Len(op[c].ret_list) : op[c].ret_list[i].id = id
      /\ \A i \in 1..Len(op[c].ret_list), j \in 1..Len(op[c].ret_list) :
           i < j => ~StrLess(op[c].ret_list[i].created_at,
                             op[c].ret_list[j].created_at)

Front(seq) == SubSeq(seq, 1, Len(seq) - 1)

\* Two clients have each completed an appendMessage on the same session, and
\* both loaded the same record: neither write was seen by the other's read.
BothAppended(c, d, sid) ==
  /\ c # d
  /\ Completed(c, "appendMessage") /\ op[c].sid = sid
  /\ Completed(d, "appendMessage") /\ op[d].sid = sid
  /\ loc[c].session # NoSession
  /\ loc[d].session # NoSession
  /\ Front(loc[c].session.messages) = Front(loc[d].session.messages)

(***************************************************************************)
(* C12: two appendMessage calls of different clients on one existing       *)
(* session can interleave so that both complete and the stored record      *)
(* holds the message of only one of them. The last write wins: whenever    *)
(* both calls loaded the same record, the stored messages are the ones one *)
(* of the two wrote, the loaded messages and one message more.             *)
(***************************************************************************)
C12_LastWriteWins ==
  \A c, d \in Clients, sid \in Ids :
    BothAppended(c, d, sid) =>
      /\ Exists(sid)
      /\ RecordOf(sid).messages \in
           {loc[c].session.messages, loc[d].session.messages}

\* The interleaving of C12: both calls completed, the record holds the
\* message of d and not the one of c.
C12_Witness ==
  \E c, d \in Clients, sid \in Ids :
    /\ BothAppended(c, d, sid)
    /\ op[c].msg # op[d].msg
    /\ RecordOf(sid).messages = loc[d].session.messages
    /\ \A i \in 1..Len(RecordOf(sid).messages) :
         RecordOf(sid).messages[i] # op[c].msg

(***************************************************************************)
(* C13: in every reachable state, every stored record whose messages are   *)
(* not empty has the seeded assistant greeting at index 0, also while      *)
(* another client appends to a session that create_new_session has stored  *)
(* and not yet greeted.                                                    *)
(***************************************************************************)
C13_GreetingAtIndexZero ==
  \A id \in Ids :
    (Exists(id) /\ RecordOf(id).messages # <<>>) =>
      RecordOf(id).messages[1] = initial_message

\* The id an operation was given named no record when the operation began.
OnMissing(c) == op[c].sid # Absent /\ op[c].preStore[op[c].sid] = Nil

(***************************************************************************)
(* C14: appendMessage with an id that names no stored session is a no-op:  *)
(* it raises nothing, creates no record and leaves every record and the    *)
(* pointer as they were. getMessages with such an id returns the empty     *)
(* sequence.                                                               *)
(***************************************************************************)
C14_MissingSessionIsNoOp ==
  \A c \in Clients :
    /\ (Completed(c, "appendMessage") /\ OnMissing(c)) =>
         /\ op[c].err = ""
         /\ ~Exists(op[c].sid)
         /\ sessions = op[c].preStore
         /\ current = op[c].preCur
    /\ (Completed(c, "getMessages") /\ OnMissing(c)) =>
         /\ op[c].err = ""
         /\ op[c].ret_msgs = <<>>

\* appendMessage, then getMessages, with an id that names no record, while
\* another session is stored and current.
C14_Witness ==
  /\ Followed(1, "appendMessage", "getMessages")
  /\ OnMissing(1)
  /\ prev[1].sid = op[1].sid
  /\ prev[1].preStore[prev[1].sid] = Nil
  /\ current # Absent
  /\ \E id \in Ids : Exists(id)

\* The calendar day of the instant the formatted timestamp was taken at, and
\* the calendar day of datetime.now().
CreatedDay == fmt.t \div MinutesPerDay
NowDay == clock \div MinutesPerDay

(***************************************************************************)
(* C15: format_chat_timestamp returns "Today" exactly when the date of     *)
(* created_at is the current date, "Yesterday" exactly when it is the      *)
(* current date minus one day, and otherwise the weekday name of           *)
(* created_at: the result is a function of the two calendar dates.         *)
(***************************************************************************)
C15_LabelByCalendarDates ==
  fmt.out # <<>> =>
    /\ fmt.out = StrToday <=> CreatedDay = NowDay
    /\ fmt.out = StrYesterday <=> CreatedDay = NowDay - 1
    /\ CreatedDay \notin {NowDay, NowDay - 1} =>
         fmt.out = WeekdayNames[(CreatedDay % 7) + 1]

\* "Yesterday" for a timestamp taken less than 24 hours ago.
C15_Witness ==
  /\ fmt.out = StrYesterday
  /\ clock - fmt.t < MinutesPerDay

\* The messages stored under an id, none when no record is stored.
StoredMessages(store, sid) ==
  IF store[sid] = Nil THEN <<>> ELSE Loads(store[sid]).messages

Holds(messages, m) == \E i \in 1..Len(messages) : messages[i] = m

(***************************************************************************)
(* C16: with two clients submitting user messages to the same session, the *)
(* rollback of a failed send never removes a message the other client      *)
(* appended: a user message of the other client that is stored when the    *)
(* rollback writes is stored after the write.                              *)
(***************************************************************************)
C16_RollbackKeepsOthersMessage ==
  [][\A c, d \in Clients :
       (/\ c # d
        /\ pc[c] = "rb_hset" /\ pc'[c] # "rb_hset"
        /\ op[d].name = "submit-message" /\ op[d].sid = loc[c].sid
        /\ Holds(StoredMessages(sessions, loc[c].sid), op[d].msg)) =>
         Holds(StoredMessages(sessions', loc[c].sid), op[d].msg)]_vars

(***************************************************************************)
(* C17: once a delete_session call on an id has finished, no record with   *)
(* that id is stored in any later state: an append or a rollback that      *)
(* loaded the record before the deletion and writes after it does not      *)
(* store it again.                                                         *)
(***************************************************************************)
C17_DeletedStaysDeleted == \A id \in deleted : ~Exists(id)

\* The greeting, then (user, assistant) pairs.
GreetingThenPairs(messages) ==
  /\ Len(messages) % 2 = 1
  /\ messages[1] = initial_message
  /\ \A i \in 2..Len(messages) :
       messages[i].role = IF i % 2 = 0 THEN "user" ELSE "assistant"

(***************************************************************************)
(* C18: with a single client, whenever no command is running, the messages *)
(* of every stored session are the greeting followed by zero or more       *)
(* (user, assistant) pairs, whether the sends succeeded or failed: no      *)
(* record ends with a user message.                                        *)
(***************************************************************************)
C18_GreetingThenPairs ==
  pc[1] = "idle" =>
    \A id \in Ids : Exists(id) => GreetingThenPairs(RecordOf(id).messages)

\* A submission that failed and was rolled back after one that succeeded.
C18_Witness ==
  /\ Completed(1, "submit-message")
  /\ op[1].send = "failed"
  /\ prev[1].name = "submit-message" /\ prev[1].send = "ok"
  /\ Exists(op[1].sid)
  /\ Len(RecordOf(op[1].sid).messages) = 3

\* Client c has completed an appendMessage or a handleFailedSend on a
\* session that was stored when the operation began.
WroteExisting(c) ==
  /\ Completed(c, "appendMessage") \/ Completed(c, "handleFailedSend")
  /\ op[c].pre # NoSession

(***************************************************************************)
(* C19: appendMessage and handleFailedSend on an existing session change   *)
(* neither the id, created_at and display_time of its record, nor the      *)
(* record of any other session, nor the pointer; handleFailedSend changes  *)
(* no title either.                                                        *)
(***************************************************************************)
C19_AppendAndRollbackFrame ==
  \A c \in Clients :
    WroteExisting(c) =>
      /\ Exists(op[c].sid)
      /\ RecordOf(op[c].sid).id = op[c].pre.id
      /\ RecordOf(op[c].sid).created_at = op[c].pre.created_at
      /\ RecordOf(op[c].sid).display_time = op[c].pre.display_time
      /\ \A other \in Ids \ {op[c].sid} :
           sessions[other] = op[c].preStore[other]
      /\ current = op[c].preCur
      /\ Completed(c, "handleFailedSend") =>
           RecordOf(op[c].sid).title = op[c].pre.title

\* A rollback has removed the user message that retitled a session, while
\* another session is stored and current.
C19_Witness ==
  /\ Completed(1, "handleFailedSend")
  /\ Len(op[1].pre.messages) = 2
  /\ Len(RecordOf(op[1].sid).messages) = 1
  /\ Take(op[1].pre.title, Len(StrNewSessionOpen)) # StrNewSessionOpen
  /\ current \notin {Absent, op[1].sid}
  /\ Exists(current)

=============================================================================
